---------------------------- MODULE Spec2Model ----------------------------
(***************************************************************************)
(* Model of the t-irc wire layer: the ircparse tokenizer (wire.rs), the    *)
(* command mapper (command.rs), the message aggregate and serializer       *)
(* (data.rs) and the stream codec (ircstream/lib.rs).                      *)
(*                                                                         *)
(* A byte is a one-character string; a byte string (&[u8], Cow<[u8]>,      *)
(* BytesMut) is a sequence of bytes.  Option<T> is a sequence of length    *)
(* at most one: << >> is None and <<x>> is Some(x).                        *)
(***************************************************************************)
EXTENDS Naturals, Sequences, FiniteSets

(***************************************************************************)
(* Bytes and the character classes of the three regular expressions.       *)
(***************************************************************************)
Letter == {"A", "B", "P", "R", "I", "V", "M", "S", "G", "a", "b"}
Digit == {"1", "2", "3"}
Byte == Letter \cup Digit \cup
        {"@", ":", ";", " ", "\r", "\n", "!", "=", "/", ".", "-", "_", "#", "NUL"}

\* [A-Za-z0-9\-.]  (vendor part of a tag key)
KeyVendorClass == Letter \cup Digit \cup {"-", "."}
\* [A-Za-z0-9\-]   (name part of a tag key)
KeyNameClass == Letter \cup Digit \cup {"-"}
\* [^\x00\r\n; ]   (tag value)
TagValueClass == Byte \ {"NUL", "\r", "\n", ";", " "}
\* [^!@ ]          (nickname)
NicknameClass == Byte \ {"!", "@", " "}
\* [^@ ]           (user)
UserClass == Byte \ {"@", " "}
\* [^ ]            (host)
HostClass == Byte \ {" "}
\* [A-Za-z_\-]     (alphabetic command)
CommandClass == Letter \cup {"_", "-"}
\* take_till! predicate of the middle parameters
ArgStop == {" ", "\r", "\n"}

None == << >>
Some(x) == <<x>>

Take(s, n) == SubSeq(s, 1, n)
Drop(s, n) == SubSeq(s, n + 1, Len(s))

\* Length of the longest prefix of s made of bytes of class C (a greedy
\* character-class repetition of the regex engine).
RunLen(s, C) ==
    CHOOSE n \in 0..Len(s) :
        /\ \A i \in 1..n : s[i] \in C
        /\ (n = Len(s) \/ s[n + 1] \notin C)

\* nom's Compare for byte slices, as used by tag!.
Compare(s, t) ==
    IF \E i \in 1..Len(s) : i <= Len(t) /\ s[i] # t[i] THEN "Error"
    ELSE IF Len(s) >= Len(t) THEN "Ok" ELSE "Incomplete"

\* find_substring: Some(offset of the first occurrence of t in s), or None.
FindSubstring(s, t) ==
    LET hits == {i \in 0..Len(s) : i + Len(t) <= Len(s) /\ SubSeq(s, i + 1, i + Len(t)) = t}
    IN IF hits = {} THEN None
       ELSE Some(CHOOSE i \in hits : \A j \in hits : i <= j)

(***************************************************************************)
(* Parser results (nom::IResult): Ok carries the remaining input and the   *)
(* value, Error the input at which the parser gave up.                     *)
(***************************************************************************)
POk(left, val) == [t |-> "Ok", left |-> left, val |-> val]
PError(at) == [t |-> "Error", left |-> at, val |-> None]
PIncomplete == [t |-> "Incomplete", left |-> None, val |-> None]

\* char!(c)
Char(input, c) ==
    IF Len(input) = 0 THEN PIncomplete
    ELSE IF input[1] # c THEN PError(input)
    ELSE POk(Drop(input, 1), c)

\* tag!(t)
TagBytes(input, t) ==
    CASE Compare(input, t) = "Ok" -> POk(Drop(input, Len(t)), t)
      [] Compare(input, t) = "Incomplete" -> PIncomplete
      [] OTHER -> PError(input)

\* take_till!(|c| c is ' ', '\r' or '\n')
TakeTillArgStop(input) ==
    LET n == RunLen(input, Byte \ ArgStop)
    IN IF n = Len(input) THEN PIncomplete
       ELSE POk(Drop(input, n), Take(input, n))

\* take_until!("\r\n")
TakeUntilCrlf(input) ==
    LET pos == FindSubstring(input, <<"\r", "\n">>)
    IN IF pos = None THEN PIncomplete
       ELSE POk(Drop(input, pos[1]), Take(input, pos[1]))

(***************************************************************************)
(* wire.rs: tag, tags, prefix, command                                     *)
(***************************************************************************)
\* TAG_REGEX: length of the key match, 0 when the regex does not match.
TagKeyLen(input) ==
    LET v == RunLen(input, KeyVendorClass)
        n == IF v > 0 /\ Len(input) > v /\ input[v + 1] = "/"
             THEN RunLen(Drop(input, v + 1), KeyNameClass)
             ELSE 0
    IN IF n > 0 THEN v + 1 + n ELSE RunLen(input, KeyNameClass)

tag(input) ==
    LET k == TagKeyLen(input)
        afterKey == Drop(input, k)
        hasValue == Len(afterKey) > 0 /\ afterKey[1] = "="
        v == IF hasValue THEN RunLen(Drop(afterKey, 1), TagValueClass) ELSE 0
    IN IF k = 0 THEN PError(input)
       ELSE IF hasValue
            THEN POk(Drop(afterKey, 1 + v),
                     [key |-> Take(input, k), value |-> Some(SubSeq(afterKey, 2, 1 + v))])
            ELSE POk(afterKey, [key |-> Take(input, k), value |-> None])

\* The loop of separated_nonempty_list!(char!(';'), tag) after the first element.
RECURSIVE TagsLoop(_, _)
TagsLoop(input, res) ==
    LET sep == Char(input, ";")
    IN CASE sep.t = "Error" -> POk(input, res)
         [] sep.t = "Incomplete" -> PIncomplete
         [] OTHER ->
              LET el == tag(sep.left)
              IN IF el.t = "Error" THEN POk(input, res)
                 ELSE TagsLoop(el.left, Append(res, el.val))

tags(input) ==
    LET first == tag(input)
    IN IF first.t = "Error" THEN first
       ELSE TagsLoop(first.left, <<first.val>>)

\* The prefix regex with the host group made optional on its own,
\* "^nick(?:!user)?(?:@host)?": a user may then come without a host.
prefixHostOptional(input) ==
    LET n == RunLen(input, NicknameClass)
        afterNick == Drop(input, n)
        u == IF Len(afterNick) > 0 /\ afterNick[1] = "!"
             THEN RunLen(Drop(afterNick, 1), UserClass) ELSE 0
        afterUser == IF u > 0 THEN Drop(afterNick, 1 + u) ELSE afterNick
        h == IF Len(afterUser) > 0 /\ afterUser[1] = "@"
             THEN RunLen(Drop(afterUser, 1), HostClass) ELSE 0
    IN IF n = 0 THEN PError(input)
       ELSE POk(IF h > 0 THEN Drop(afterUser, 1 + h) ELSE afterUser,
                [nickname |-> Take(input, n),
                 user |-> IF u > 0 THEN Some(SubSeq(afterNick, 2, 1 + u)) ELSE None,
                 host |-> IF h > 0 THEN Some(SubSeq(afterUser, 2, 1 + h)) ELSE None])

prefix(input) ==
    LET n == RunLen(input, NicknameClass)
        afterNick == Drop(input, n)
        \* (?:!(?P<user>[^@ ]+))?
        u == IF Len(afterNick) > 0 /\ afterNick[1] = "!"
             THEN RunLen(Drop(afterNick, 1), UserClass) ELSE 0
        afterUser == Drop(afterNick, 1 + u)
        hu == IF u > 0 /\ Len(afterUser) > 0 /\ afterUser[1] = "@"
              THEN RunLen(Drop(afterUser, 1), HostClass) ELSE 0
        \* @(?P<host>[^ ]+) directly after the nickname
        h == IF Len(afterNick) > 0 /\ afterNick[1] = "@"
             THEN RunLen(Drop(afterNick, 1), HostClass) ELSE 0
    IN IF n = 0 THEN PError(input)
       ELSE IF hu > 0
            THEN POk(Drop(afterUser, 1 + hu),
                     [nickname |-> Take(input, n),
                      user |-> Some(SubSeq(afterNick, 2, 1 + u)),
                      host |-> Some(SubSeq(afterUser, 2, 1 + hu))])
       ELSE IF h > 0
            THEN POk(Drop(afterNick, 1 + h),
                     [nickname |-> Take(input, n),
                      user |-> None,
                      host |-> Some(SubSeq(afterNick, 2, 1 + h))])
       ELSE POk(afterNick, [nickname |-> Take(input, n), user |-> None, host |-> None])

\* COMMAND_REGEX "^[A-Za-z_\-]+|[0-9]{3}": the first alternative is anchored,
\* the second is not, so find() returns the leftmost run of three digits.
command(input) ==
    LET a == RunLen(input, CommandClass)
        hits == {i \in 0..Len(input) :
                    /\ i + 3 <= Len(input)
                    /\ \A j \in 1..3 : input[i + j] \in Digit}
        d == CHOOSE i \in hits : \A j \in hits : i <= j
    IN IF a > 0 THEN POk(Drop(input, a), Take(input, a))
       ELSE IF hits = {} THEN PError(input)
       ELSE POk(Drop(input, d + 3), SubSeq(input, d + 1, d + 3))

(***************************************************************************)
(* command.rs: the mapping between RawCommandAndArgs and Command           *)
(***************************************************************************)
PRIVMSG == <<"P", "R", "I", "V", "M", "S", "G">>

Privmsg(channel, message) ==
    [variant |-> "Privmsg", channel |-> channel, message |-> message]
Unknown(cmd, args, rest) ==
    [variant |-> "Unknown", command |-> cmd, args |-> args, rest |-> rest]
RawCommandAndArgs(cmd, args, rest) ==
    [command |-> cmd, args |-> args, rest |-> rest]

\* Command::from without the check that there is exactly one argument.
CommandFromAnyArity(raw) ==
    IF raw.command = PRIVMSG /\ raw.rest # None /\ Len(raw.args) >= 1
    THEN Privmsg(raw.args[Len(raw.args)], raw.rest[1])
    ELSE Unknown(raw.command, raw.args, raw.rest)

\* impl From<RawCommandAndArgs> for Command
CommandFrom(raw) ==
    IF raw.command = PRIVMSG /\ raw.rest # None /\ Len(raw.args) = 1
    THEN Privmsg(raw.args[Len(raw.args)], raw.rest[1])
    ELSE Unknown(raw.command, raw.args, raw.rest)

\* Command::into with channel and message exchanged in the Privmsg arm.
CommandIntoSwapped(cmd) ==
    IF cmd.variant = "Privmsg"
    THEN RawCommandAndArgs(PRIVMSG, <<cmd.message>>, Some(cmd.channel))
    ELSE RawCommandAndArgs(cmd.command, cmd.args, cmd.rest)

\* impl Into<RawCommandAndArgs> for Command
CommandInto(cmd) ==
    IF cmd.variant = "Privmsg"
    THEN RawCommandAndArgs(PRIVMSG, <<cmd.channel>>, Some(cmd.message))
    ELSE RawCommandAndArgs(cmd.command, cmd.args, cmd.rest)

(***************************************************************************)
(* wire.rs: message and Message::parse                                     *)
(***************************************************************************)
\* opt!(p): an Error of p becomes None at the unchanged input.
Opt(r, input) ==
    CASE r.t = "Ok" -> POk(r.left, Some(r.val))
      [] r.t = "Error" -> POk(input, None)
      [] OTHER -> r

\* delimited!(open, body, char!(' ')): the closing char!(' ') after the body.
CloseSection(body, close) ==
    IF close.t # "Ok" THEN close ELSE POk(close.left, body.val)

\* delimited!(open, body, char!(' ')) once the opening char has matched.
SectionBody(body) ==
    IF body.t # "Ok" THEN body ELSE CloseSection(body, Char(body.left, " "))

\* delimited!(char!('@'), tags, char!(' '))
TagSection(input) ==
    LET open == Char(input, "@")
    IN IF open.t # "Ok" THEN open ELSE SectionBody(tags(open.left))

\* delimited!(char!(':'), prefix, char!(' '))
PrefixSection(input) ==
    LET open == Char(input, ":")
    IN IF open.t # "Ok" THEN open ELSE SectionBody(prefix(open.left))

\* peek!(alt!(tag!(" :") | tag!("\r\n")))
ArgsEnd(input) ==
    LET first == TagBytes(input, <<" ", ":">>)
        alt == IF first.t = "Error" THEN TagBytes(input, <<"\r", "\n">>) ELSE first
    IN IF alt.t = "Ok" THEN POk(input, alt.val) ELSE alt

\* preceded!(char!(' '), take_till!(..))
Arg(input) ==
    LET sp == Char(input, " ")
    IN IF sp.t # "Ok" THEN sp ELSE TakeTillArgStop(sp.left)

\* many_till!(Arg, ArgsEnd): whenever the terminator does not return Ok
\* (Error or Incomplete alike) the element parser is tried.
RECURSIVE ManyTill(_, _)
ManyTill(input, res) ==
    LET end == ArgsEnd(input)
        el == Arg(input)
    IN IF end.t = "Ok" THEN POk(end.left, res)
       ELSE CASE el.t = "Error" -> PError(input)
              [] el.t = "Incomplete" -> PIncomplete
              [] OTHER -> IF el.left = input THEN PError(input)
                          ELSE ManyTill(el.left, Append(res, el.val))

\* opt!(preceded!(tag!(" :"), take_until!("\r\n")))
Rest(input) ==
    LET intro == TagBytes(input, <<" ", ":">>)
    IN Opt(IF intro.t # "Ok" THEN intro ELSE TakeUntilCrlf(intro.left), input)

\* named!(message<Message>, do_parse!(...)): each step of do_parse! runs on
\* the input left by the step before it and returns early unless it is Ok.
\* The closing expression of do_parse!, after tag!("\r\n") returned e.
MessageEnd(t, p, c, a, r, e) ==
    IF e.t # "Ok" THEN e
    ELSE POk(e.left,
             [tags |-> IF t.val = None THEN << >> ELSE t.val[1],
              prefix |-> p.val,
              command_and_args |-> RawCommandAndArgs(c.val, a.val, r.val)])

MessageRest(t, p, c, a, r) ==
    IF r.t # "Ok" THEN r
    ELSE MessageEnd(t, p, c, a, r, TagBytes(r.left, <<"\r", "\n">>))

MessageArgs(t, p, c, a) ==
    IF a.t # "Ok" THEN a ELSE MessageRest(t, p, c, a, Rest(a.left))

MessageCommand(t, p, c) ==
    IF c.t # "Ok" THEN c ELSE MessageArgs(t, p, c, ManyTill(c.left, << >>))

MessagePrefix(t, p) ==
    IF p.t # "Ok" THEN p ELSE MessageCommand(t, p, command(p.left))

MessageTags(t) ==
    IF t.t # "Ok" THEN t ELSE MessagePrefix(t, Opt(PrefixSection(t.left), t.left))

message(input) == MessageTags(Opt(TagSection(input), input))

\* Result<(Message, &[u8]), Option<&[u8]>>
ParseOk(msg, left) == [t |-> "Ok", msg |-> Some(msg), left |-> left]
ParseIncomplete == [t |-> "Incomplete", msg |-> None, left |-> None]
ParseInvalid(at) == [t |-> "Invalid", msg |-> None, left |-> at]

\* impl From<wire::Message> for Message
MessageFrom(value) ==
    [tags |-> value.tags,
     prefix |-> value.prefix,
     command |-> CommandFrom(value.command_and_args)]

\* The map and map_err of wire::Message::parse, then the map of
\* data::Message::parse, applied to the result r of message.
ParseResult(r) ==
    CASE r.t = "Ok" -> ParseOk(MessageFrom(r.val), r.left)
      [] r.t = "Incomplete" -> ParseIncomplete
      [] OTHER -> ParseInvalid(r.left)

\* wire::Message::parse followed by data::Message::parse
parse(data) == ParseResult(message(data))

(***************************************************************************)
(* data.rs: into_owned and write_to                                        *)
(***************************************************************************)
\* Cow::into_owned: a fresh Vec<u8> holding the same bytes.
BytesIntoOwned(b) == [i \in 1..Len(b) |-> b[i]]
OptionIntoOwned(o) == IF o = None THEN None ELSE Some(BytesIntoOwned(o[1]))

TagIntoOwned(tg) ==
    [key |-> BytesIntoOwned(tg.key), value |-> OptionIntoOwned(tg.value)]

PrefixIntoOwned(p) ==
    [nickname |-> BytesIntoOwned(p.nickname),
     user |-> OptionIntoOwned(p.user),
     host |-> OptionIntoOwned(p.host)]

CommandIntoOwned(cmd) ==
    IF cmd.variant = "Privmsg"
    THEN Privmsg(BytesIntoOwned(cmd.channel), BytesIntoOwned(cmd.message))
    ELSE Unknown(BytesIntoOwned(cmd.command),
                 [i \in 1..Len(cmd.args) |-> BytesIntoOwned(cmd.args[i])],
                 OptionIntoOwned(cmd.rest))

MessageIntoOwned(m) ==
    [tags |-> [i \in 1..Len(m.tags) |-> TagIntoOwned(m.tags[i])],
     prefix |-> IF m.prefix = None THEN None ELSE Some(PrefixIntoOwned(m.prefix[1])),
     command |-> CommandIntoOwned(m.command)]

\* A writer's outcome: the bytes written, or a panic (unimplemented!()).
Written(bytes) == [panic |-> FALSE, bytes |-> bytes]
Panicked == [panic |-> TRUE, bytes |-> << >>]

\* Tag::write_to
TagWriteTo(tg) ==
    tg.key \o (IF tg.value # None THEN <<"=">> \o tg.value[1] ELSE << >>)

\* Prefix::write_to
PrefixWriteTo(p) ==
    CASE p.user = None /\ p.host = None -> Written(<<":">> \o p.nickname)
      [] p.user = None /\ p.host # None ->
            Written(<<":">> \o p.nickname \o <<"@">> \o p.host[1])
      [] p.user # None /\ p.host # None ->
            Written(<<":">> \o p.nickname \o <<"!">> \o p.user[1] \o <<"@">> \o p.host[1])
      [] OTHER -> Panicked

RECURSIVE ArgsWriteTo(_)
ArgsWriteTo(args) ==
    IF args = << >> THEN << >>
    ELSE <<" ">> \o Head(args) \o ArgsWriteTo(Tail(args))

\* RawCommandAndArgs::write_to
RawWriteTo(raw) ==
    raw.command \o ArgsWriteTo(raw.args)
        \o (IF raw.rest # None THEN <<" ", ":">> \o raw.rest[1] ELSE << >>)

RECURSIVE TagsWriteTo(_, _)
TagsWriteTo(tgs, first) ==
    IF tgs = << >> THEN << >>
    ELSE (IF first THEN <<"@">> ELSE <<";">>) \o TagWriteTo(Head(tgs))
            \o TagsWriteTo(Tail(tgs), FALSE)

\* Message::write_to
MessageWriteTo(m) ==
    LET t == IF m.tags # << >> THEN TagsWriteTo(m.tags, TRUE) \o <<" ">> ELSE << >>
        p == IF m.prefix # None THEN PrefixWriteTo(m.prefix[1]) ELSE Written(<< >>)
        c == RawWriteTo(CommandInto(m.command))
    IN IF p.panic THEN Panicked
       ELSE Written(t \o p.bytes
                      \o (IF m.prefix # None THEN <<" ">> ELSE << >>)
                      \o c \o <<"\r", "\n">>)

(***************************************************************************)
(* ircstream/lib.rs: StreamMessage and IrcCodec::decode                    *)
(***************************************************************************)
StreamMessageMessage(m) == [kind |-> "Message", msg |-> Some(m), bytes |-> << >>]
StreamMessageInvalid(b) == [kind |-> "Invalid", msg |-> None, bytes |-> b]

\* src.iter().position(|&b| b == b'\n')
NewlinePos(buf) ==
    LET hits == {i \in 0..Len(buf) : i < Len(buf) /\ buf[i + 1] = "\n"}
    IN IF hits = {} THEN None
       ELSE Some(CHOOSE i \in hits : \A j \in hits : i <= j)

\* The Ok((msg, left)) arm of decode.
DecodeOk(buf, r) ==
    [ret |-> Some(StreamMessageMessage(MessageIntoOwned(r.msg[1]))),
     src |-> Drop(buf, Len(buf) - Len(r.left))]

\* The Err(_) arm of decode.
DecodeErr(buf, newline_pos) ==
    IF newline_pos # None
    THEN [ret |-> Some(StreamMessageInvalid(Take(buf, newline_pos[1] + 1))),
          src |-> Drop(buf, newline_pos[1] + 1)]
    ELSE [ret |-> None, src |-> buf]

\* The match of decode on the result r of Message::parse(src).
DecodeMatch(buf, r) ==
    CASE r.t = "Ok" -> DecodeOk(buf, r)
      [] r.t = "Incomplete" -> [ret |-> None, src |-> buf]
      [] OTHER -> DecodeErr(buf, NewlinePos(buf))

\* The Ok arm advancing the buffer by left.len() instead of
\* len() - left.len().
DecodeOkAdvanceLeft(buf, r) ==
    [ret |-> Some(StreamMessageMessage(MessageIntoOwned(r.msg[1]))),
     src |-> Drop(buf, Len(r.left))]

\* The Err(_) arm splitting at newline_pos instead of newline_pos + 1.
DecodeErrSplitBeforeNewline(buf, newline_pos) ==
    IF newline_pos # None
    THEN [ret |-> Some(StreamMessageInvalid(Take(buf, newline_pos[1]))),
          src |-> Drop(buf, newline_pos[1])]
    ELSE [ret |-> None, src |-> buf]

DecodeMatchAdvanceLeft(buf, r) ==
    CASE r.t = "Ok" -> DecodeOkAdvanceLeft(buf, r)
      [] r.t = "Incomplete" -> [ret |-> None, src |-> buf]
      [] OTHER -> DecodeErr(buf, NewlinePos(buf))

DecodeMatchSplitBeforeNewline(buf, r) ==
    CASE r.t = "Ok" -> DecodeOk(buf, r)
      [] r.t = "Incomplete" -> [ret |-> None, src |-> buf]
      [] OTHER -> DecodeErrSplitBeforeNewline(buf, NewlinePos(buf))

\* decode with the Ok arm advancing by left.len().
decodeAdvanceLeft(buf) == DecodeMatchAdvanceLeft(buf, parse(buf))

\* decode with the Err(_) arm splitting before the newline.
decodeSplitBeforeNewline(buf) == DecodeMatchSplitBeforeNewline(buf, parse(buf))

\* IrcCodec::decode: the returned Ok(Option<StreamMessage>) and the buffer
\* it leaves behind.  No arm returns Err.
decode(buf) == DecodeMatch(buf, parse(buf))

\* StreamMessage::is_valid
IsValid(ev) == ev.kind # "Invalid"

(***************************************************************************)
(* Bounds and input sets                                                   *)
(***************************************************************************)
CRLF == <<"\r", "\n">>

\* All byte strings over alphabet A of length at most n.
Strings(A, n) == UNION {[1..k -> A] : k \in 0..n}

\* Streams of the codec specification: every byte string up to MaxStream.
MaxStream == 4
StreamAlphabet == {"A", " ", ":", "1", "\r", "\n"}
Streams == Strings(StreamAlphabet, MaxStream)

(***************************************************************************)
(* State                                                                   *)
(***************************************************************************)
VARIABLES
    \* the connection driven by the transport's read loop
    wire,       \* bytes the peer has sent that have not been read yet
    src,        \* the codec's read buffer (BytesMut)
    fed,        \* every byte read so far, in order
    chunks,     \* number of reads so far
    out,        \* the StreamMessage values decode has returned, in order
    pc,         \* "read": the loop reads next; "decode": it calls decode next
    dst,        \* the outgoing buffer of the encoder
    echoed,     \* index in out of the last message handed to encode
    panicked,   \* an encode call hit unimplemented!()
    \* Message::parse applied to one input
    data,       \* the input byte string
    cut,        \* length of the prefix of data that was parsed
    result,     \* what Message::parse returned for that prefix
    rewritten,  \* write_to of the parsed message
    \* the command mapper applied to one raw value
    raw,        \* the RawCommandAndArgs value
    cmd,        \* Some(Command::from(raw))
    back,       \* Some(cmd.into())
    \* serialize-then-parse of one message value
    item,       \* the Message value
    wbytes,     \* Some(item.write_to(..))
    reparsed    \* Some(Message::parse(bytes written))

codecVars == <<wire, src, fed, chunks, out, pc, dst, echoed, panicked>>
parseVars == <<data, cut, result, rewritten>>
mapperVars == <<raw, cmd, back>>
tripVars == <<item, wbytes, reparsed>>
vars == <<codecVars, parseVars, mapperVars, tripVars>>

NotRun == [t |-> "NotRun", msg |-> None, left |-> None]

CodecIdle ==
    /\ wire = << >> /\ src = << >> /\ fed = << >> /\ chunks = 0 /\ out = << >>
    /\ pc = "read" /\ dst = << >> /\ echoed = 0 /\ panicked = FALSE
ParseIdle == data = << >> /\ cut = 0 /\ result = NotRun /\ rewritten = None
MapperIdle == raw = RawCommandAndArgs(<< >>, << >>, None) /\ cmd = None /\ back = None
TripIdle == item = None /\ wbytes = None /\ reparsed = None

(***************************************************************************)
(* The codec driven by a framed read loop                                  *)
(***************************************************************************)
\* A new connection whose peer will send one of the streams in W.
InitCodec(W) ==
    /\ wire \in W
    /\ src = << >> /\ fed = << >> /\ chunks = 0 /\ out = << >>
    /\ pc = "read" /\ dst = << >> /\ echoed = 0 /\ panicked = FALSE
    /\ ParseIdle /\ MapperIdle /\ TripIdle

\* The transport appends the next n bytes to the buffer.
Receive(n) ==
    /\ pc = "read"
    /\ n \in 1..Len(wire)
    /\ src' = src \o Take(wire, n)
    /\ fed' = fed \o Take(wire, n)
    /\ wire' = Drop(wire, n)
    /\ chunks' = chunks + 1
    /\ pc' = "decode"
    /\ UNCHANGED <<out, dst, echoed, panicked, parseVars, mapperVars, tripVars>>

\* One call of IrcCodec::decode on the buffer; the loop calls it again
\* until it returns None.
DecodeReturn(d) ==
    /\ pc = "decode"
    /\ src' = d.src
    /\ out' = out \o d.ret
    /\ pc' = IF d.ret = None THEN "read" ELSE "decode"
    /\ UNCHANGED <<wire, fed, chunks, dst, echoed, panicked,
                   parseVars, mapperVars, tripVars>>

DecodeCall == DecodeReturn(decode(src))

\* Ok((msg, left)) arm
DecodeMessage == parse(src).t = "Ok" /\ DecodeCall
\* Err(None) arm
DecodeIncomplete == parse(src).t = "Incomplete" /\ DecodeCall
\* Err(_) arm, a newline is in the buffer
DecodeInvalidLine ==
    parse(src).t = "Invalid" /\ NewlinePos(src) # None /\ DecodeCall
\* Err(_) arm, no newline yet
DecodeInvalidWait ==
    parse(src).t = "Invalid" /\ NewlinePos(src) = None /\ DecodeCall

\* IrcCodec::encode applied to the next valid message decode has returned.
Encode ==
    LET todo == {i \in (echoed + 1)..Len(out) : IsValid(out[i])}
        i == CHOOSE j \in todo : \A k \in todo : j <= k
        w == MessageWriteTo(out[i].msg[1])
    IN /\ todo # {}
       /\ ~panicked
       /\ echoed' = i
       /\ dst' = dst \o w.bytes
       /\ panicked' = w.panic
       /\ UNCHANGED <<wire, src, fed, chunks, out, pc, parseVars, mapperVars, tripVars>>

Init == InitCodec(Streams)

Next ==
    \/ \E n \in 1..Len(wire) : Receive(n)
    \/ DecodeMessage
    \/ DecodeIncomplete
    \/ DecodeInvalidLine
    \/ DecodeInvalidWait
    \/ Encode

Spec == Init /\ [][Next]_vars

TypeOK ==
    /\ pc \in {"read", "decode"}
    /\ \E k \in 0..Len(fed) : src = Drop(fed, k)
    /\ echoed <= Len(out)

(***************************************************************************)
(* The codec on particular families of streams                             *)
(***************************************************************************)
\* One line: a body without CR followed by CR LF.
Lines(A, n) == {b \o CRLF : b \in Strings(A, n)}
IsWholeLine(r) == r.t = "Ok" /\ r.left = << >>
IsValidLine(l) == IsWholeLine(parse(l))
IsMalformedLine(l) == parse(l).t = "Invalid"

\* Streams that are exactly one valid line.
MaxLine == 4
SplitAlphabet == {"A", " ", ":", "@", "1", "\n"}
SplitLines == {l \in Lines(SplitAlphabet, MaxLine) : IsValidLine(l)}

InitSplit == InitCodec(SplitLines)
SpecSplit == InitSplit /\ [][Next]_vars

\* Streams that are a malformed line followed by a valid line.
MaxMalformed == 3
MalformedAlphabet == {"A", " ", ":", "!"}
MaxValidLine == 4
ValidAlphabet == {"A", " ", "@"}
MalformedLines == {l \in Lines(MalformedAlphabet, MaxMalformed) : IsMalformedLine(l)}
ValidLines == {l \in Lines(ValidAlphabet, MaxValidLine) : IsValidLine(l)}
ResyncStreams == {m \o v : m \in MalformedLines, v \in ValidLines}

InitResync == InitCodec(ResyncStreams)
SpecResync == InitResync /\ [][Next]_vars

\* Streams that are one line with a prefix section.
MaxPrefix == 5
PrefixAlphabet == {"A", "!", "@", " "}
PrefixStreams ==
    {<<":">> \o p \o <<" ", "A">> \o CRLF : p \in Strings(PrefixAlphabet, MaxPrefix)}

InitPrefix == InitCodec(PrefixStreams)
SpecPrefix == InitPrefix /\ [][Next]_vars

(***************************************************************************)
(* Message::parse as a function of its input                               *)
(***************************************************************************)
MaxBody == 5
ParseAlphabet == {"A", " ", "@", ":", ";", "1", "\n"}
ParseInputs == Lines(ParseAlphabet, MaxBody)

InitParse ==
    /\ data \in ParseInputs
    /\ cut = 0 /\ result = NotRun /\ rewritten = None
    /\ CodecIdle /\ MapperIdle /\ TripIdle

\* Message::parse on the first k bytes of data.
ParsePrefix(k) ==
    /\ result = NotRun
    /\ k \in 0..Len(data)
    /\ cut' = k
    /\ result' = parse(Take(data, k))
    /\ UNCHANGED <<data, rewritten, codecVars, mapperVars, tripVars>>

\* write_to of the owned form of the parsed message.
Reserialize ==
    /\ result.t = "Ok"
    /\ rewritten = None
    /\ rewritten' = Some(MessageWriteTo(MessageIntoOwned(result.msg[1])))
    /\ UNCHANGED <<data, cut, result, codecVars, mapperVars, tripVars>>

NextParse ==
    \/ \E k \in 0..Len(data) : ParsePrefix(k)
    \/ Reserialize

SpecParse == InitParse /\ [][NextParse]_vars

(***************************************************************************)
(* The command mapper as a function of the raw value                       *)
(***************************************************************************)
MaxArgs == 2
CommandTokens ==
    {PRIVMSG, <<"P", "R", "I", "V", "M", "S">>, PRIVMSG \o <<"S">>,
     <<"A">>, <<"1", "2", "3">>, << >>}
ArgValues == {<<"#">>, <<"a", "b">>, << >>}
RestValues == {None, Some(<< >>), Some(<<"a", " ", "b">>), Some(<<"#">>)}
Raws ==
    {RawCommandAndArgs(c, a, r) :
        c \in CommandTokens, a \in Strings(ArgValues, MaxArgs), r \in RestValues}

InitMapper ==
    /\ raw \in Raws
    /\ cmd = None /\ back = None
    /\ CodecIdle /\ ParseIdle /\ TripIdle

\* Command::from(raw)
ConvertFrom ==
    /\ cmd = None
    /\ cmd' = Some(CommandFrom(raw))
    /\ UNCHANGED <<raw, back, codecVars, parseVars, tripVars>>

\* cmd.into()
ConvertInto ==
    /\ cmd # None /\ back = None
    /\ back' = Some(CommandInto(cmd[1]))
    /\ UNCHANGED <<raw, cmd, codecVars, parseVars, tripVars>>

NextMapper == ConvertFrom \/ ConvertInto

SpecMapper == InitMapper /\ [][NextMapper]_vars

(***************************************************************************)
(* Serialize-then-parse of a message value                                 *)
(***************************************************************************)
TagLists ==
    {<< >>,
     <<[key |-> <<"a">>, value |-> None]>>,
     <<[key |-> <<"a">>, value |-> Some(<<"1">>)], [key |-> <<"b">>, value |-> Some(<< >>)]>>}
Prefixes ==
    {None,
     Some([nickname |-> <<"a">>, user |-> None, host |-> None]),
     Some([nickname |-> <<"a">>, user |-> None, host |-> Some(<<"b">>)]),
     Some([nickname |-> <<"a">>, user |-> Some(<<"A">>), host |-> Some(<<"b">>)]),
     Some([nickname |-> <<"a">>, user |-> Some(<<"A">>), host |-> None])}
TripCommandTokens == {PRIVMSG, <<"A">>, <<"1", "2", "3">>}
TripArgValues == {<<"#">>, <<"a", "b">>}
Commands ==
    {Privmsg(c, m) : c \in TripArgValues, m \in {<< >>, <<"a", " ", "b">>}}
        \cup {Unknown(c, a, r) : c \in TripCommandTokens,
                                 a \in Strings(TripArgValues, MaxArgs),
                                 r \in RestValues}
Messages ==
    {[tags |-> t, prefix |-> p, command |-> c] :
        t \in TagLists, p \in Prefixes, c \in Commands}

InitTrip ==
    /\ item \in {Some(m) : m \in Messages}
    /\ wbytes = None /\ reparsed = None
    /\ CodecIdle /\ ParseIdle /\ MapperIdle

\* item.write_to(&mut bytes)
WriteItem ==
    /\ item # None /\ wbytes = None
    /\ wbytes' = Some(MessageWriteTo(item[1]))
    /\ UNCHANGED <<item, reparsed, codecVars, parseVars, mapperVars>>

\* Message::parse(&bytes)
ParseWritten ==
    /\ wbytes # None /\ reparsed = None
    /\ ~wbytes[1].panic
    /\ reparsed' = Some(parse(wbytes[1].bytes))
    /\ UNCHANGED <<item, wbytes, codecVars, parseVars, mapperVars>>

NextTrip == WriteItem \/ ParseWritten

SpecTrip == InitTrip /\ [][NextTrip]_vars

(***************************************************************************)
(* Properties                                                              *)
(***************************************************************************)
\* The read loop has read the whole stream and decode has returned None.
Drained == wire = << >> /\ pc = "read" /\ chunks >= 1

\* C1: split-buffer equivalence.  When a valid line L (parse succeeds and
\* consumes all of L) has arrived in two or more chunks, with decode called
\* after each append until it returned None, the events returned are exactly
\* one ValidMessage equal to the parse of L, and no InvalidLine.
C1_SplitBufferEquivalence ==
    (Drained /\ chunks >= 2 /\ IsValidLine(fed))
        => out = <<StreamMessageMessage(MessageIntoOwned(parse(fed).msg[1]))>>

\* The first CR LF terminated line of a stream, and what follows it.
FirstLine(s) == Take(s, FindSubstring(s, CRLF)[1] + 2)
AfterFirstLine(s) == Drop(s, FindSubstring(s, CRLF)[1] + 2)

\* C2: resync.  When the buffer received a malformed CR LF terminated line
\* immediately followed by a valid one, the decode calls return exactly one
\* InvalidLine carrying the malformed line and then exactly one ValidMessage
\* equal to the parse of the valid line alone.
C2_Resync ==
    (Drained /\ chunks = 1
        /\ IsMalformedLine(FirstLine(fed)) /\ IsValidLine(AfterFirstLine(fed)))
        => out = <<StreamMessageInvalid(FirstLine(fed)),
                   StreamMessageMessage(
                       MessageIntoOwned(parse(AfterFirstLine(fed)).msg[1]))>>

\* C3: Incomplete versus Invalid.  For a valid line L, Message::parse of any
\* proper prefix of L returns Incomplete (Err(None)), never Invalid.
C3_ProperPrefixIncomplete ==
    (result # NotRun /\ IsValidLine(data) /\ cut < Len(data))
        => result.t = "Incomplete"

\* C4: serialize-then-parse round trip.  Message::parse of the bytes written
\* by m.write_to returns Success with a message equal to m and nothing left.
C4_RoundTrip ==
    reparsed # None
        => /\ reparsed[1].t = "Ok"
           /\ reparsed[1].msg = item
           /\ reparsed[1].left = << >>

\* A step of the read loop that is a call of IrcCodec::decode.
IsDecodeStep == pc = "decode" /\ echoed' = echoed

\* C5: every decode call either returns None and leaves the buffer as it
\* was, or returns exactly one event and removes a non-empty prefix of the
\* buffer, leaving the suffix as it was; on Success the removed prefix has
\* length (buffer length - length of the parser's remaining slice).
C5_DecodeFrame ==
    [][IsDecodeStep =>
        \/ out' = out /\ src' = src /\ pc' = "read"
        \/ /\ Len(out') = Len(out) + 1
           /\ Take(out', Len(out)) = out
           /\ pc' = "decode"
           /\ \E k \in 1..Len(src) :
                 /\ src' = Drop(src, k)
                 /\ parse(src).t = "Ok" => k = Len(src) - Len(parse(src).left)
                 /\ parse(src).t = "Ok" <=> out'[Len(out')].kind = "Message"]_vars

\* C5 witness: decode returned a message and left a non-empty suffix.
C5_Witness ==
    /\ Len(out) = 1 /\ out[1].kind = "Message"
    /\ src # << >> /\ Len(src) < Len(fed)

\* C6: when the tokenizer classifies the buffer as Invalid, decode returns an
\* InvalidLine exactly when the buffer contains LF; the event carries the
\* bytes from the start of the buffer through the first LF, exactly those
\* bytes are removed, and without LF nothing is removed and None is returned.
C6_InvalidLine ==
    [][(IsDecodeStep /\ parse(src).t = "Invalid") =>
        IF \E i \in 1..Len(src) : src[i] = "\n"
        THEN LET n == CHOOSE i \in 1..Len(src) :
                          src[i] = "\n" /\ \A j \in 1..(i - 1) : src[j] # "\n"
             IN /\ out' = Append(out, StreamMessageInvalid(Take(src, n)))
                /\ src' = Drop(src, n)
        ELSE out' = out /\ src' = src /\ pc' = "read"]_vars

\* C6 witness: an InvalidLine was returned and bytes after the LF remain.
C6_Witness ==
    /\ Len(out) = 1 /\ out[1].kind = "Invalid"
    /\ src # << >> /\ out[1].bytes \o src = fed

\* C7: a Prefix produced by a successful parse has a user only if it has a
\* host, and encoding a message returned by decode never reaches the
\* unimplemented (user, no host) arm of Prefix::write_to.
C7_UserOnlyWithHost ==
    /\ \A i \in 1..Len(out) :
          (out[i].kind = "Message" /\ out[i].msg[1].prefix # None
              /\ out[i].msg[1].prefix[1].user # None)
              => out[i].msg[1].prefix[1].host # None
    /\ ~panicked

\* C7 witness: a message whose prefix has a user has been decoded and encoded.
C7_Witness ==
    /\ echoed = 1 /\ out[1].kind = "Message"
    /\ out[1].msg[1].prefix # None
    /\ out[1].msg[1].prefix[1].user # None
    /\ dst # << >>

\* C8: catch-all fidelity.  Converting a RawCommandAndArgs to Command and
\* back yields the same command, the same args in order and the same rest.
C8_RawRoundTrip ==
    back # None
        => /\ back[1].command = raw.command
           /\ back[1].args = raw.args
           /\ back[1].rest = raw.rest

\* C8 witness: a raw value that maps to Privmsg has been converted back.
C8_Witness ==
    /\ back # None /\ cmd[1].variant = "Privmsg"
    /\ raw.args # <<<< >>>> /\ raw.rest # Some(<< >>)

\* The raw shape of the modeled variant.
IsPrivmsgShape(r) ==
    r.command = PRIVMSG /\ Len(r.args) = 1 /\ r.rest # None

\* C9: forward mapping.  Command::from(raw) is Privmsg{channel = args[0],
\* message = rest} exactly when the command is "PRIVMSG", there is exactly
\* one arg and rest is present; otherwise it is Unknown with the raw fields.
C9_ForwardMapping ==
    cmd # None
        => /\ cmd[1].variant = "Privmsg" <=> IsPrivmsgShape(raw)
           /\ cmd[1].variant = "Privmsg"
                 => cmd[1].channel = raw.args[1] /\ cmd[1].message = raw.rest[1]
           /\ cmd[1].variant # "Privmsg"
                 => /\ cmd[1].variant = "Unknown"
                    /\ cmd[1].command = raw.command
                    /\ cmd[1].args = raw.args
                    /\ cmd[1].rest = raw.rest

\* C9 witness: a PRIVMSG with two args and a rest has become Unknown.
C9_Witness ==
    /\ cmd # None /\ cmd[1].variant = "Unknown"
    /\ raw.command = PRIVMSG /\ Len(raw.args) = 2 /\ raw.rest # None

\* C10: every middle argument of a successfully parsed message is non-empty
\* and contains no space, CR or LF.
C10_MiddleParams ==
    result.t = "Ok"
        => \A i \in 1..Len(CommandInto(result.msg[1].command).args) :
              LET arg == CommandInto(result.msg[1].command).args[i]
              IN arg # << >> /\ \A j \in 1..Len(arg) : arg[j] \notin ArgStop

\* The bytes Message::parse consumed: its input with the remaining slice removed.
Consumed == Take(Take(data, cut), cut - Len(result.left))

\* C11: whenever parse returns Success with remaining slice R, write_to of the
\* returned message reproduces exactly the consumed bytes (the input with the
\* suffix R removed); no byte before the command token is skipped.
C11_NoSkippedBytes ==
    (result.t = "Ok" /\ rewritten # None)
        => /\ ~rewritten[1].panic
           /\ rewritten[1].bytes = Consumed

==========================================================================
